---- MODULE Spec2Model ----
(***************************************************************************)
(* Model of src/src/index.ts: an Express server that keeps, per channel,   *)
(* an EventEmitter and a message counter (eventEmitters), streams          *)
(* Server-Sent Events to the connections listening on that emitter, and    *)
(* persists channels and messages in a PostgreSQL store (pool.query).      *)
(*                                                                         *)
(* Node runs every handler to its next await without interruption, so one  *)
(* action is one synchronous stretch of a handler: from the request to the *)
(* first await, or from the resumption after an await to the next await or *)
(* to the end of the handler.                                              *)
(***************************************************************************)
EXTENDS Integers, Sequences, FiniteSets, Bags, TLC

\* Bound of the model: the requests received, client disconnects and
\* keepalive timer firings of a run, together.
MaxEvents == 4
\* Of these, the requests other than event streams
MaxRequests == MaxEvents - 2

\* req.params.channelId: a non-empty path segment (the router matches no
\* empty ":channelId"), so the "!channelId" tests of the handlers are false.
Channels == {"1", "2"}

\* A field the JSON body does not carry.
Undefined == "undefined"
NA == "n/a"
\* req.body of POST /message: complete, or without one of its fields
Bodies == {[content |-> "hi", username |-> "alice"],
           [content |-> Undefined, username |-> "alice"]}
Names == {"general", Undefined}

VARIABLES
    eventEmitters,  \* Map channelId -> [emitter, messageCounter]
    listeners,      \* per EventEmitter, its "broadcast" listeners in order of registration
    conns,          \* the event streams opened so far, one record each
    reqs,           \* the other requests served or in flight: a bag of records
    messages,       \* rows of the store's messages table
    channels,       \* rows (ids) of the store's channels table
    nextId,         \* the messages table's serial id
    broadcasts,     \* log of the emitter.emit("broadcast") calls and what each listener wrote
    ticks,          \* keepalive firings so far
    crashed         \* the process ended on an unhandled rejection

vars == <<eventEmitters, listeners, conns, reqs, messages, channels, nextId,
          broadcasts, ticks, crashed>>

-----------------------------------------------------------------------------
\* Map operations

Has(m, k) == k \in DOMAIN m

MapSet(m, k, v) == [x \in DOMAIN m \cup {k} |-> IF x = k THEN v ELSE m[x]]

MapDelete(m, k) == [x \in DOMAIN m \ {k} |-> m[x]]

\* Mutant of RemoveHub: the deletion leaves the registry entry in place
RemoveHub_Keep(reg, channelId) == reg

\* eventEmitters.delete(channelId)
RemoveHub(reg, channelId) == MapDelete(reg, channelId)

\* emitter.on("broadcast", listener): the listener of connection c is appended
AddListener(ls, e, c) ==
    MapSet(ls, e, Append(IF Has(ls, e) THEN ls[e] ELSE <<>>, c))

\* Mutant of InitialCounter: every closure starts its own count at 1
InitialCounter_Fresh(reg, channelId) == 1

\* The closure's messageCounter when the stream opens
InitialCounter(reg, channelId) ==
    IF Has(reg, channelId) THEN reg[channelId].messageCounter ELSE 1

\* Mutant of NextCounter: the listener does not advance the counter
NextCounter_Stuck(n) == n

\* messageCounter += 1
NextCounter(n) == n + 1

-----------------------------------------------------------------------------
\* Frames written to a connection

InitFrame == [type |-> "init", id |-> 0, data |-> NA]
KeepaliveFrame == [type |-> "keepalive", id |-> 0, data |-> NA]
\* res.write(`data: ${JSON.stringify(data)}\n\n`); res.write(`id: ${messageCounter}`)
DataFrame(data, id) == [type |-> "data", id |-> id, data |-> data]

\* res.write on the response of connection record cn: the frame reaches the
\* client while it is connected; after the client has gone the call does not
\* throw, and the frame is dropped.
Write(cn, frame) ==
    IF cn.connected
    THEN [cn EXCEPT !.frames = Append(@, frame)]
    ELSE [cn EXCEPT !.lateWrites = @ + 1]

\* The number of emits so far on emitter e
EmitsOn(log, e) == Cardinality({i \in DOMAIN log : log[i].emitter = e})

\* Mutant of BroadcastListener: the listener stores the counter under the
\* key of channel "1" whatever its own channel is
BroadcastListener_FixedKey(st, c, data) ==
    LET cn == st.conns[c]
        id == cn.messageCounter
        n  == NextCounter(id)
    IN  [conns |-> [st.conns EXCEPT
                       ![c] = [Write(cn, DataFrame(data, id)) EXCEPT !.messageCounter = n]],
         eventEmitters |-> MapSet(st.eventEmitters, "1",
                                  [emitter |-> cn.emitter, messageCounter |-> n]),
         writes |-> Append(st.writes,
                           [conn |-> c, id |-> id, delivered |-> cn.connected])]

\* The "broadcast" listener of connection c, run on data.
\* st = [conns, eventEmitters, writes]
BroadcastListener(st, c, data) ==
    LET cn == st.conns[c]
        id == cn.messageCounter
        n  == NextCounter(id)
    IN  [conns |-> [st.conns EXCEPT
                       ![c] = [Write(cn, DataFrame(data, id)) EXCEPT !.messageCounter = n]],
         eventEmitters |-> MapSet(st.eventEmitters, cn.channelId,
                                  [emitter |-> cn.emitter, messageCounter |-> n]),
         writes |-> Append(st.writes,
                           [conn |-> c, id |-> id, delivered |-> cn.connected])]

\* Mutant of Emit: the event reaches the listener of every connection of the
\* payload's channel, whichever emitter it was registered on
RECURSIVE EmitTo(_, _, _)
EmitTo(ls, st, data) ==
    IF ls = <<>> THEN st
    ELSE EmitTo(Tail(ls), BroadcastListener(st, Head(ls), data), data)

Emit_ByChannel(ls, st, data) ==
    LET OnChannel(c) == st.conns[c].channelId = data.channelId
    IN  EmitTo(SelectSeq([c \in DOMAIN st.conns |-> c], OnChannel), st, data)

\* emitter.emit("broadcast", data): the listeners run in order of registration
RECURSIVE Emit(_, _, _)
Emit(ls, st, data) ==
    IF ls = <<>> THEN st
    ELSE Emit(Tail(ls), BroadcastListener(st, Head(ls), data), data)

-----------------------------------------------------------------------------
\* Responses

\* res.status(s).json(..) / .send(..): the first call answers the request; a
\* later one throws ERR_HTTP_HEADERS_SENT. sent keeps every call.
Send(sent, status) == [sent |-> Append(sent, status), threw |-> sent # <<>>]

\* Mutant of InsertSucceeded: a rejected INSERT is taken for a resolved one
InsertSucceeded_Always(result) == TRUE

\* The await of pool.query resolved (with rows) rather than rejected
InsertSucceeded(result) == result = "ok"

NewReq(kind, channelId, content, username, name, missing, pc) ==
    [kind |-> kind, channelId |-> channelId, content |-> content,
     username |-> username, name |-> name, pc |-> pc,
     sent |-> IF missing THEN <<400>> ELSE <<>>,
     queries |-> 1, result |-> "pending", row |-> 0,
     emitted |-> FALSE, escaped |-> FALSE]

\* The requests, disconnects and timer firings so far
Events ==
    Len(conns) + BagCardinality(reqs) + ticks
        + Cardinality({c \in DOMAIN conns : ~conns[c].connected})

\* A request arrives
AddReq(rec) == reqs (+) SetToBag({rec})

-----------------------------------------------------------------------------
Init ==
    /\ eventEmitters = <<>>
    /\ listeners = <<>>
    /\ conns = <<>>
    /\ reqs = EmptyBag
    /\ messages = {}
    /\ channels = {}
    /\ nextId = 1
    /\ broadcasts = <<>>
    /\ ticks = 0
    /\ crashed = FALSE

\* Mutant of HandshakeFrames: the stream opens without the handshake
HandshakeFrames_None == <<>>

\* What the handler has written when it registers the listener:
\* res.write("event: init\n\n")
HandshakeFrames == <<InitFrame>>

\* GET /events/:channelId with Accept: text/event-stream
OpenStream(channelId) ==
    /\ ~crashed
    /\ Events < MaxEvents
    /\ LET c == Len(conns) + 1
           has == Has(eventEmitters, channelId)
           emitter == IF has THEN eventEmitters[channelId].emitter ELSE c
           messageCounter == InitialCounter(eventEmitters, channelId)
       IN  /\ eventEmitters' =
                 IF has THEN eventEmitters
                 ELSE MapSet(eventEmitters, channelId,
                             [emitter |-> emitter, messageCounter |-> messageCounter])
           /\ listeners' = AddListener(listeners, emitter, c)
           /\ conns' = Append(conns,
                 [channelId |-> channelId, emitter |-> emitter,
                  messageCounter |-> messageCounter, connected |-> TRUE,
                  interval |-> TRUE, frames |-> HandshakeFrames, lateWrites |-> 0,
                  joinedAfter |-> EmitsOn(broadcasts, emitter)])
    /\ UNCHANGED <<reqs, messages, channels, nextId, broadcasts, ticks, crashed>>

\* GET /events/:channelId with any other Accept header: res.json({ msg: "OK" })
GetEvents(channelId) ==
    /\ ~crashed
    /\ Events < MaxEvents
    /\ BagCardinality(reqs) < MaxRequests
    /\ reqs' = AddReq([NewReq("events", channelId, NA, NA, NA, FALSE, "done")
              EXCEPT !.sent = <<200>>, !.queries = 0])
    /\ UNCHANGED <<eventEmitters, listeners, conns, messages, channels, nextId,
                   broadcasts, ticks, crashed>>

\* Mutant of KeepaliveWrite: the keepalive takes a sequence id
KeepaliveWrite_Counting(cn) ==
    [Write(cn, KeepaliveFrame) EXCEPT !.messageCounter = @ + 1]

\* res.write(":\n\n")
KeepaliveWrite(cn) == Write(cn, KeepaliveFrame)

\* The setInterval callback of connection c
KeepaliveTick(c) ==
    /\ ~crashed
    /\ conns[c].interval
    /\ Events < MaxEvents
    /\ ticks' = ticks + 1
    /\ conns' = [conns EXCEPT ![c] = KeepaliveWrite(@)]
    /\ UNCHANGED <<eventEmitters, listeners, reqs, messages, channels, nextId,
                   broadcasts, crashed>>

\* The client of connection c goes away. The handler listens for "close" on
\* the channel's emitter, on which nothing emits "close", and not on req or
\* res: no code runs.
Disconnect(c) ==
    /\ ~crashed
    /\ conns[c].connected
    /\ Events < MaxEvents
    /\ conns' = [conns EXCEPT ![c].connected = FALSE]
    /\ UNCHANGED <<eventEmitters, listeners, reqs, messages, channels, nextId,
                   broadcasts, ticks, crashed>>

\* The handler of request rq goes on: its record becomes rec
SetReq(rq, rec) == (reqs (-) SetToBag({rq})) (+) SetToBag({rec})

\* An exception (a rejected promise) leaves an async handler: the router of
\* the Express version installed either passes it to its error handler or
\* leaves it unhandled, which ends the Node 20 process.
Escapes(rec) == crashed' \in (IF rec.escaped THEN BOOLEAN ELSE {FALSE})

\* POST /message/:channelId, up to its await of the INSERT
PostMessage(channelId, body) ==
    /\ ~crashed
    /\ Events < MaxEvents
    /\ BagCardinality(reqs) < MaxRequests
    /\ reqs' = AddReq(NewReq("message", channelId, body.content, body.username, NA,
                 body.content = Undefined \/ body.username = Undefined, "insert"))
    /\ UNCHANGED <<eventEmitters, listeners, conns, messages, channels, nextId,
                   broadcasts, ticks, crashed>>

\* The store runs the INSERT of request rq: it adds the row, or fails
StoreInsert(rq, ok) ==
    /\ ~crashed
    /\ rq.kind = "message"
    /\ rq.pc = "insert"
    /\ IF ok
       THEN /\ messages' = messages \cup {[id |-> nextId, channelid |-> rq.channelId]}
            /\ nextId' = nextId + 1
            /\ reqs' = SetReq(rq, [rq EXCEPT !.pc = "resume", !.result = "ok",
                                                 !.row = nextId])
       ELSE /\ reqs' = SetReq(rq, [rq EXCEPT !.pc = "resume", !.result = "fail"])
            /\ UNCHANGED <<messages, nextId>>
    /\ UNCHANGED <<eventEmitters, listeners, conns, channels, broadcasts, ticks, crashed>>

\* The payload of the broadcast of request rq
Payload(rq) ==
    [channelId |-> rq.channelId, id |-> rq.row, username |-> rq.username,
     content |-> rq.content, created_at |-> rq.row]

\* POST /message/:channelId, from the resumption after the await to its end.
\* The handler has no try/catch and no return after a response.
PostResume(rq) ==
    /\ ~crashed
    /\ rq.kind = "message"
    /\ rq.pc = "resume"
    /\ LET channelId == rq.channelId
           has == Has(eventEmitters, channelId)
           emitter == IF has THEN eventEmitters[channelId].emitter ELSE 0
           notFound == IF has THEN [sent |-> rq.sent, threw |-> FALSE]
                       ELSE Send(rq.sent, 404)
           data == Payload(rq)
           st == IF has
                 THEN Emit(listeners[emitter],
                           [conns |-> conns, eventEmitters |-> eventEmitters,
                            writes |-> <<>>], data)
                 ELSE [conns |-> conns, eventEmitters |-> eventEmitters, writes |-> <<>>]
           posted == Send(notFound.sent, 201)
           rec == IF ~InsertSucceeded(rq.result)
                  THEN [rq EXCEPT !.pc = "done", !.escaped = TRUE]
                  ELSE IF notFound.threw
                  THEN [rq EXCEPT !.pc = "done", !.sent = notFound.sent,
                                  !.escaped = TRUE]
                  ELSE [rq EXCEPT !.pc = "done", !.sent = posted.sent,
                                  !.emitted = has,
                                  !.escaped = posted.threw]
       IN  /\ reqs' = SetReq(rq, rec)
           /\ IF rec.emitted
              THEN /\ conns' = st.conns
                   /\ eventEmitters' = st.eventEmitters
                   /\ broadcasts' = Append(broadcasts,
                         [emitter |-> emitter, channelId |-> channelId,
                          data |-> data, registered |-> listeners[emitter],
                          writes |-> st.writes])
              ELSE UNCHANGED <<conns, eventEmitters, broadcasts>>
           /\ Escapes(rec)
    /\ UNCHANGED <<listeners, messages, channels, nextId, ticks>>

\* POST /channel, up to its await of the INSERT
CreateChannel(name) ==
    /\ ~crashed
    /\ Events < MaxEvents
    /\ BagCardinality(reqs) < MaxRequests
    /\ reqs' = AddReq(NewReq("channel", NA, NA, NA, name, name = Undefined, "insert"))
    /\ UNCHANGED <<eventEmitters, listeners, conns, messages, channels, nextId,
                   broadcasts, ticks, crashed>>

\* The id the channels table gives its next row
NextChannelId == Cardinality({q \in BagToSet(reqs) :
                     q.kind = "channel" /\ q.result = "ok"}) + 1

\* POST /channel, from the store's answer to the INSERT to its end
CreateChannelResume(rq, ok) ==
    /\ ~crashed
    /\ rq.kind = "channel"
    /\ rq.pc = "insert"
    /\ LET okSend == Send(rq.sent, 200)
           \* catch (err): res.status(500).send(err)
           caught == Send(IF ok THEN okSend.sent ELSE rq.sent, 500)
           rec == IF ok /\ ~okSend.threw
                  THEN [rq EXCEPT !.pc = "done", !.result = "ok", !.sent = okSend.sent,
                                  !.row = NextChannelId]
                  ELSE [rq EXCEPT !.pc = "done",
                                  !.result = IF ok THEN "ok" ELSE "fail",
                                  !.row = IF ok THEN NextChannelId ELSE 0,
                                  !.sent = caught.sent, !.escaped = caught.threw]
       IN  /\ reqs' = SetReq(rq, rec)
           /\ channels' = IF ok THEN channels \cup {NextChannelId} ELSE channels
           /\ Escapes(rec)
    /\ UNCHANGED <<eventEmitters, listeners, conns, messages, nextId, broadcasts, ticks>>

\* DELETE /channel/:channelId, up to its await of DELETE FROM messages
DeleteChannel(channelId) ==
    /\ ~crashed
    /\ Events < MaxEvents
    /\ BagCardinality(reqs) < MaxRequests
    /\ reqs' = AddReq(NewReq("delete", channelId, NA, NA, NA, FALSE, "messages"))
    /\ UNCHANGED <<eventEmitters, listeners, conns, messages, channels, nextId,
                   broadcasts, ticks, crashed>>

\* DELETE /channel/:channelId, from the store's answer to DELETE FROM messages
\* to the await of DELETE FROM channels, or to the catch
DeleteMessagesResume(rq, ok) ==
    /\ ~crashed
    /\ rq.kind = "delete"
    /\ rq.pc = "messages"
    /\ IF ok
           THEN /\ messages' = {m \in messages : m.channelid # rq.channelId}
                /\ reqs' = SetReq(rq, [rq EXCEPT !.pc = "channels", !.queries = 2])
           ELSE /\ reqs' = SetReq(rq, [rq EXCEPT !.pc = "done", !.result = "fail",
                                                !.sent = Send(rq.sent, 500).sent])
                /\ UNCHANGED messages
    /\ UNCHANGED <<eventEmitters, listeners, conns, channels, nextId, broadcasts,
                   ticks, crashed>>

\* WHERE id = $1: the row the path segment names
ChannelRow(channelId) == IF channelId = "1" THEN 1 ELSE 2

\* Mutant of DeleteChannelResume: the hub goes whatever the store answered
DeleteChannelResume_RemovesOnFailure(rq, ok) ==
    /\ ~crashed
    /\ rq.kind = "delete"
    /\ rq.pc = "channels"
    /\ eventEmitters' = RemoveHub(eventEmitters, rq.channelId)
    /\ IF ok
           THEN /\ channels' = channels \ {ChannelRow(rq.channelId)}
                /\ reqs' = SetReq(rq, [rq EXCEPT !.pc = "done", !.result = "ok",
                                                !.sent = Send(rq.sent, 204).sent])
           ELSE /\ reqs' = SetReq(rq, [rq EXCEPT !.pc = "done", !.result = "fail",
                                                !.sent = Send(rq.sent, 500).sent])
                /\ UNCHANGED channels
    /\ UNCHANGED <<listeners, conns, messages, nextId, broadcasts, ticks, crashed>>

\* DELETE /channel/:channelId, from the store's answer to DELETE FROM channels
\* to its end
DeleteChannelResume(rq, ok) ==
    /\ ~crashed
    /\ rq.kind = "delete"
    /\ rq.pc = "channels"
    /\ IF ok
           THEN /\ channels' = channels \ {ChannelRow(rq.channelId)}
                /\ eventEmitters' = RemoveHub(eventEmitters, rq.channelId)
                /\ reqs' = SetReq(rq, [rq EXCEPT !.pc = "done", !.result = "ok",
                                                !.sent = Send(rq.sent, 204).sent])
           ELSE /\ reqs' = SetReq(rq, [rq EXCEPT !.pc = "done", !.result = "fail",
                                                !.sent = Send(rq.sent, 500).sent])
                /\ UNCHANGED <<channels, eventEmitters>>
    /\ UNCHANGED <<listeners, conns, messages, nextId, broadcasts, ticks, crashed>>

Next ==
    \/ \E ch \in Channels : OpenStream(ch)
    \/ \E ch \in Channels : GetEvents(ch)
    \/ \E c \in DOMAIN conns : KeepaliveTick(c)
    \/ \E c \in DOMAIN conns : Disconnect(c)
    \/ \E ch \in Channels, b \in Bodies : PostMessage(ch, b)
    \/ \E rq \in BagToSet(reqs), ok \in BOOLEAN : StoreInsert(rq, ok)
    \/ \E rq \in BagToSet(reqs) : PostResume(rq)
    \/ \E n \in Names : CreateChannel(n)
    \/ \E rq \in BagToSet(reqs), ok \in BOOLEAN : CreateChannelResume(rq, ok)
    \/ \E ch \in Channels : DeleteChannel(ch)
    \/ \E rq \in BagToSet(reqs), ok \in BOOLEAN : DeleteMessagesResume(rq, ok)
    \/ \E rq \in BagToSet(reqs), ok \in BOOLEAN : DeleteChannelResume(rq, ok)

Spec == Init /\ [][Next]_vars

-----------------------------------------------------------------------------
\* Properties

Range(seq) == {seq[i] : i \in DOMAIN seq}
IsData(f) == f.type = "data"
DataFrames(c) == SelectSeq(conns[c].frames, IsData)
\* The position of broadcast i among the broadcasts of its emitter
Nth(i) == Cardinality({j \in 1..i : broadcasts[j].emitter = broadcasts[i].emitter})
Reqs == BagToSet(reqs)
MessageReqs == {q \in Reqs : q.kind = "message"}
\* The requests whose INSERT returned the row that broadcast b carries
ReqsOf(b) == {q \in MessageReqs : q.result = "ok" /\ q.row = b.data.id}
\* Request record q has come about in this step
Arrives(q) == CopiesIn(q, reqs') > CopiesIn(q, reqs)
Complete(rq) == rq.content # Undefined /\ rq.username # Undefined

\* C1: the Nth broadcast on a hub since its creation writes sequence id N to
\* a listener (there is always one), and while a hub is in the registry its
\* counter is one more than the number of broadcasts made on it.
C1_NthBroadcastHasIdN ==
    /\ \A i \in DOMAIN broadcasts :
          /\ broadcasts[i].writes # <<>>
          /\ \A k \in DOMAIN broadcasts[i].writes : broadcasts[i].writes[k].id = Nth(i)
    /\ \A ch \in DOMAIN eventEmitters :
          eventEmitters[ch].messageCounter =
              EmitsOn(broadcasts, eventEmitters[ch].emitter) + 1

\* Two broadcasts were made on one hub, the second with id 2
C1_Witness ==
    \E i, j \in DOMAIN broadcasts :
        /\ i < j
        /\ broadcasts[i].emitter = broadcasts[j].emitter
        /\ \E k \in DOMAIN broadcasts[j].writes : broadcasts[j].writes[k].id = 2

\* C2: all the connections one broadcast writes to are written the same
\* sequence id, and two data frames received for the same message on any two
\* connections are the same frame (same id, same payload).
C2_SameIdAndPayload ==
    /\ \A i \in DOMAIN broadcasts :
          \A k, l \in DOMAIN broadcasts[i].writes :
              broadcasts[i].writes[k].id = broadcasts[i].writes[l].id
    /\ \A c, d \in DOMAIN conns :
          \A f \in Range(DataFrames(c)), g \in Range(DataFrames(d)) :
              f.data.id = g.data.id => f = g

\* A connection that subscribed after one broadcast and one that subscribed
\* before any both received the second message
C2_Witness ==
    \E c, d \in DOMAIN conns :
        /\ conns[c].joinedAfter = 0
        /\ conns[d].joinedAfter = 1
        /\ conns[c].emitter = conns[d].emitter
        /\ \E f \in Range(DataFrames(c)), g \in Range(DataFrames(d)) :
               f.data.id = g.data.id

\* A broadcast of a POST /message that carried all its fields
OfCompletePost(b) == b.data.content # Undefined /\ b.data.username # Undefined

\* C3 (as claimed): a broadcast writes to exactly the connections registered
\* on the hub when it runs, and to no connection whose client has
\* disconnected.
C3_Claim ==
    \A i \in DOMAIN broadcasts :
        OfCompletePost(broadcasts[i]) =>
            /\ {w.conn : w \in Range(broadcasts[i].writes)}
                   = Range(broadcasts[i].registered)
            /\ \A w \in Range(broadcasts[i].writes) : w.delivered

\* C4: a connection that subscribed after K broadcasts on its hub receives
\* data frames with ids K+1, K+2, ... in that order, none of them a frame of
\* the hub's first K broadcasts.
C4_LateSubscriber ==
    \A c \in DOMAIN conns :
        LET K == conns[c].joinedAfter
            fs == DataFrames(c)
        IN  /\ \A k \in DOMAIN fs : fs[k].id = K + k
            /\ \A i \in DOMAIN broadcasts :
                  (broadcasts[i].emitter = conns[c].emitter /\ Nth(i) <= K)
                      => \A f \in Range(fs) : f.data # broadcasts[i].data

\* A connection that subscribed after a broadcast has received a data frame
C4_Witness ==
    \E c \in DOMAIN conns :
        /\ conns[c].joinedAfter >= 1
        /\ DataFrames(c) # <<>>

\* C5 (as claimed): once a connection's client has disconnected its keepalive
\* timer is cancelled, its listener is off the emitter and no write is
\* attempted on it.
C5_Claim ==
    \A c \in DOMAIN conns :
        ~conns[c].connected =>
            /\ ~conns[c].interval
            /\ c \notin Range(listeners[conns[c].emitter])
            /\ conns[c].lateWrites = 0

\* C6 (as claimed): when the write of a complete POST's broadcast to one
\* connection fails, the other listeners are written the same id, the failed
\* one is removed from the emitter, and the POST is answered 201 alone.
C6_Claim ==
    \A i \in DOMAIN broadcasts :
        LET b == broadcasts[i]
        IN  \A w \in Range(b.writes) :
                (OfCompletePost(b) /\ ~w.delivered) =>
                    /\ \A v \in Range(b.writes) : v.id = w.id
                    /\ {v.conn : v \in Range(b.writes)} = Range(b.registered)
                    /\ w.conn \notin Range(listeners[b.emitter])
                    /\ \A q \in ReqsOf(b) : q.sent = <<201>>

\* C7 (as claimed): a request without a required field is answered 400 and
\* the handler stops: no store query, no broadcast, no further response.
C7_Claim ==
    \A q \in Reqs :
        (q.kind \in {"message", "channel"} /\ q.sent # <<>> /\ Head(q.sent) = 400)
        => /\ q.sent = <<400>>
           /\ q.queries = 0
           /\ ~q.emitted
           /\ ~q.escaped

\* C8 (as claimed): a failed INSERT of a complete POST /message is caught in
\* the handler: a 500 is sent, nothing is broadcast, nothing escapes.
C8_Claim ==
    \A q \in MessageReqs :
        (Complete(q) /\ q.pc = "done" /\ q.result = "fail")
        => /\ q.sent = <<500>>
           /\ ~q.emitted
           /\ ~q.escaped

\* A step in which a data frame is written to connection c, received or not
DataWritten(c) ==
    \/ SelectSeq(conns'[c].frames, IsData) # DataFrames(c)
    \/ (conns'[c].lateWrites # conns[c].lateWrites /\ ticks' = ticks)

\* C9: every step that writes a data frame to a connection is the broadcast
\* of a POST /message whose INSERT had already resolved with the row whose id
\* the payload carries, and that step leaves the store as it is.
C9_PersistBeforeBroadcast ==
    [][ /\ (\E c \in DOMAIN conns : DataWritten(c)) => broadcasts' # broadcasts
        /\ broadcasts' # broadcasts =>
              LET b == broadcasts'[Len(broadcasts')]
              IN  /\ \E q \in ReqsOf(b) : q.pc = "resume" /\ ~Arrives(q)
                  /\ b.data.id < nextId
                  /\ <<messages, channels, nextId>>' = <<messages, channels, nextId>>
      ]_vars

\* A message was broadcast and received
C9_Witness ==
    \E c \in DOMAIN conns : \E f \in Range(DataFrames(c)) :
        \E q \in MessageReqs : q.result = "ok" /\ q.row = f.data.id

\* C10: a successful DELETE leaves no registry entry for the channel; a
\* complete POST /message that resumes with no entry for its channel has
\* persisted its row, is answered 404 and writes to no connection; a stream
\* opened on a channel with no entry creates an entry with counter 1 and a
\* new emitter whose only listener it is.
C10_DeleteRemovesHub ==
    [][ /\ \A q \in BagToSet(reqs') :
              (Arrives(q) /\ q.kind = "delete" /\ q.sent = <<204>>)
              => ~Has(eventEmitters', q.channelId)
        /\ \A q \in BagToSet(reqs') :
              (Arrives(q) /\ q.kind = "message" /\ q.pc = "done"
                  /\ q.result = "ok" /\ Complete(q)
                  /\ ~Has(eventEmitters, q.channelId))
              => /\ Head(q.sent) = 404
                 /\ q.row < nextId
                 /\ conns' = conns
                 /\ broadcasts' = broadcasts
                 /\ eventEmitters' = eventEmitters
        /\ Len(conns') > Len(conns) =>
              LET c == Len(conns')
                  ch == conns'[c].channelId
              IN  ~Has(eventEmitters, ch)
                  => /\ eventEmitters'[ch] = [emitter |-> c, messageCounter |-> 1]
                     /\ listeners'[c] = <<c>>
                     /\ conns'[c].messageCounter = 1
      ]_vars

\* After a stream on a channel, the channel was deleted, a complete POST to it
\* was answered 404, and a second stream got a new hub with counter 1
C10_Witness ==
    /\ ~crashed
    /\ \E c, d \in DOMAIN conns :
          /\ c < d
          /\ conns[c].channelId = conns[d].channelId
          /\ conns[d].emitter = d
          /\ Has(eventEmitters, conns[d].channelId)
          /\ eventEmitters[conns[d].channelId] = [emitter |-> d, messageCounter |-> 1]
          /\ DataFrames(c) = <<>>
          /\ \E r, q \in Reqs :
                /\ r.kind = "delete" /\ r.sent = <<204>>
                /\ r.channelId = conns[c].channelId
                /\ q.kind = "message" /\ q.channelId = conns[c].channelId
                /\ Complete(q) /\ q.pc = "done" /\ q.result = "ok"
                /\ Head(q.sent) = 404

\* A stream is opened in this step
Opens == Len(conns') > Len(conns)
\* The channel of the stream opened in this step
OpenedChannel == conns'[Len(conns')].channelId
\* The DELETE requests that are answered 204 in this step
Deleted == {q \in BagToSet(reqs') : Arrives(q) /\ q.kind = "delete" /\ q.sent = <<204>>}

BroadcastOf(f) == CHOOSE i \in DOMAIN broadcasts : broadcasts[i].data = f.data

\* C12 (as claimed): of two messages broadcast on one hub, the one whose
\* INSERT the store completed first (the smaller row id) is broadcast first
\* and so has the smaller sequence id.
C12_Claim ==
    \A i, j \in DOMAIN broadcasts :
        (broadcasts[i].emitter = broadcasts[j].emitter
            /\ broadcasts[i].data.id < broadcasts[j].data.id)
        => i < j

\* C12 (amended): publishes on one hub are applied in the order in which the
\* POST handlers resume after their await: the earlier resumed gets the
\* smaller sequence id on every listener, and a connection that receives both
\* frames receives them in that order.
C12_AppliedInResumeOrder ==
    /\ \A i, j \in DOMAIN broadcasts :
          (i < j /\ broadcasts[i].emitter = broadcasts[j].emitter)
          => \A v \in Range(broadcasts[i].writes), w \in Range(broadcasts[j].writes) :
                 v.id < w.id
    /\ \A c \in DOMAIN conns :
          LET fs == DataFrames(c)
          IN  \A k, l \in DOMAIN fs :
                  k < l => /\ BroadcastOf(fs[k]) < BroadcastOf(fs[l])
                           /\ fs[k].id < fs[l].id

\* Two POSTs resumed in the reverse of the order in which the store completed
\* their INSERTs, and a connection received both frames
C12_Witness ==
    \E i, j \in DOMAIN broadcasts :
        /\ i < j
        /\ broadcasts[i].emitter = broadcasts[j].emitter
        /\ broadcasts[i].data.id > broadcasts[j].data.id
        /\ \E c \in DOMAIN conns :
              {broadcasts[i].data, broadcasts[j].data}
                  \subseteq {f.data : f \in Range(DataFrames(c))}

\* The registry entry of channel ch, if any
Entry(ch) == IF Has(eventEmitters, ch) THEN <<eventEmitters[ch]>> ELSE <<>>
\* The listeners on the hub of channel ch
Subscribers(ch) ==
    IF Has(eventEmitters, ch) THEN listeners[eventEmitters[ch].emitter] ELSE <<>>
\* The channels whose stream-open, POST /message or DELETE runs in this step
ActingChannels ==
    (IF Opens THEN {OpenedChannel} ELSE {})
        \cup {q.channelId : q \in {x \in BagToSet(reqs') :
                                      Arrives(x) /\ x.kind \in {"message", "delete"}}}

\* C13: a step of a stream-open, POST /message or DELETE on one channel
\* leaves the registry entry (emitter, counter) and the listeners of every
\* other channel's hub unchanged, and the counters and data frames of the
\* connections of every other channel; every data frame a connection is
\* written carries a message posted to its own channel.
C13_ChannelsIndependent ==
    [][ /\ \A D \in Channels \ ActingChannels :
              /\ Entry(D)' = Entry(D)
              /\ Subscribers(D)' = Subscribers(D)
              /\ \A c \in DOMAIN conns :
                    conns[c].channelId = D
                    => /\ conns'[c].messageCounter = conns[c].messageCounter
                       /\ ~DataWritten(c)
        /\ \A c \in DOMAIN conns' :
              \A f \in Range(SelectSeq(conns'[c].frames, IsData)) :
                  f.data.channelId = conns'[c].channelId
      ]_vars

\* Streams on both channels each received a message posted to their channel
C13_Witness ==
    \E c, d \in DOMAIN conns :
        /\ conns[c].channelId # conns[d].channelId
        /\ DataFrames(c) # <<>>
        /\ DataFrames(d) # <<>>
        /\ \A ch \in Channels : Has(eventEmitters, ch)
                                /\ eventEmitters[ch].messageCounter = 2

\* C14: a keepalive firing writes one comment frame to its connection (or
\* drops it) and changes nothing else: not the registry entries and their
\* counters, not any closure's messageCounter, not any data frame; and no
\* step, a publish included, stops the timer of a connection.
C14_KeepaliveTakesNoId ==
    [][ /\ ticks' # ticks =>
              /\ eventEmitters' = eventEmitters
              /\ listeners' = listeners
              /\ broadcasts' = broadcasts
              /\ \A c \in DOMAIN conns :
                    /\ conns'[c].messageCounter = conns[c].messageCounter
                    /\ SelectSeq(conns'[c].frames, IsData) = DataFrames(c)
                    /\ \/ conns'[c].frames = conns[c].frames
                       \/ conns'[c].frames = Append(conns[c].frames, KeepaliveFrame)
        /\ \A c \in DOMAIN conns' : conns'[c].interval
      ]_vars

\* A connection received a keepalive between the data frames with ids 1 and 2
C14_Witness ==
    \E c \in DOMAIN conns :
        \E k, l, m \in DOMAIN conns[c].frames :
            /\ k < l /\ l < m
            /\ IsData(conns[c].frames[k]) /\ conns[c].frames[k].id = 1
            /\ conns[c].frames[l] = KeepaliveFrame
            /\ IsData(conns[c].frames[m]) /\ conns[c].frames[m].id = 2

\* C15: on every stream the handshake frame is the first frame and the only
\* handshake frame, so every keepalive and data frame comes after it; a
\* connection registered on an emitter has already been sent the handshake.
C15_InitFrameFirst ==
    /\ \A c \in DOMAIN conns :
          /\ Len(conns[c].frames) >= 1
          /\ conns[c].frames[1] = InitFrame
          /\ \A k \in 2..Len(conns[c].frames) : conns[c].frames[k] # InitFrame
    /\ \A e \in DOMAIN listeners : \A c \in Range(listeners[e]) :
          /\ c \in DOMAIN conns
          /\ Len(conns[c].frames) >= 1
          /\ conns[c].frames[1] = InitFrame

\* A stream that received the handshake, then a keepalive and a data frame
C15_Witness ==
    \E c \in DOMAIN conns :
        /\ conns[c].frames[1] = InitFrame
        /\ \E k, l \in 2..Len(conns[c].frames) :
              /\ conns[c].frames[k] = KeepaliveFrame
              /\ IsData(conns[c].frames[l])

\* The DELETE requests that this step advances, as they are after it
DeleteSteps == {q \in BagToSet(reqs') : Arrives(q) /\ q.kind = "delete" /\ q.pc # "messages"}
\* The POST /message requests that this step resumes after a successful INSERT
Resumed == {q \in BagToSet(reqs') :
               Arrives(q) /\ q.kind = "message" /\ q.pc = "done" /\ q.result = "ok"}

\* C16: an entry leaves the registry only in the step where a DELETE answers
\* 204 after its two store calls, and it is that DELETE's channel; a DELETE
\* whose store call failed answers 500 and leaves registry, listeners and
\* connections as they were, as does the step between the two store calls;
\* and a post resumed while the entry is there, a deletion in flight or not,
\* is broadcast to every listener of the emitter.
C16_DeleteRemovesAfterBothSucceed ==
    [][ /\ \A ch \in DOMAIN eventEmitters \ DOMAIN eventEmitters' :
              \E q \in DeleteSteps :
                  /\ q.channelId = ch /\ q.pc = "done" /\ q.result = "ok"
                  /\ q.queries = 2 /\ q.sent = <<204>>
        /\ \A q \in DeleteSteps :
              q.result = "fail" \/ q.pc = "channels" =>
                  /\ q.result = "fail" => q.sent = <<500>>
                  /\ eventEmitters' = eventEmitters
                  /\ listeners' = listeners
                  /\ conns' = conns
        /\ \A q \in Resumed :
              Has(eventEmitters, q.channelId) =>
                  /\ q.emitted
                  /\ Len(broadcasts') = Len(broadcasts) + 1
                  /\ LET b == broadcasts'[Len(broadcasts')]
                     IN  /\ b.emitter = eventEmitters[q.channelId].emitter
                         /\ b.data.id = q.row
                         /\ {w.conn : w \in Range(b.writes)} =
                               Range(listeners[b.emitter])
                         /\ \A w \in Range(b.writes) :
                               w.delivered = conns[w.conn].connected
      ]_vars

\* A DELETE answered 204 after two store calls and removed the hub; a message
\* whose row was inserted after the DELETE FROM messages (the row is still
\* there) was delivered on the removed emitter, hence during the deletion.
C16_Witness ==
    \E q \in Reqs : \E i \in DOMAIN broadcasts :
        /\ q.kind = "delete" /\ q.sent = <<204>> /\ q.queries = 2
        /\ ~Has(eventEmitters, q.channelId)
        /\ broadcasts[i].channelId = q.channelId
        /\ [id |-> broadcasts[i].data.id, channelid |-> q.channelId] \in messages
        /\ \E w \in Range(broadcasts[i].writes) : w.delivered
        /\ \A c \in DOMAIN conns :
              conns[c].channelId = q.channelId => conns[c].emitter = broadcasts[i].emitter

\* The registry reg has no entry that holds the emitter of connection cn
StaleIn(reg, cn) == \A ch \in DOMAIN reg : reg[ch].emitter # cn.emitter
Stale(c) == StaleIn(eventEmitters, conns[c])

\* C17: the step that removes a hub leaves every connection and every
\* listener list as it is and makes the connections of that hub stale; a
\* stale connection stays stale (no entry ever holds its emitter again), keeps
\* its timer, is written no data frame and keeps its counter, whatever is
\* opened or published afterwards; the only frame it can get is a keepalive,
\* which a connected stale connection does receive when its timer fires.
C17_StaleConnectionsGetNoData ==
    [][ /\ DOMAIN eventEmitters \ DOMAIN eventEmitters' # {} =>
              /\ conns' = conns
              /\ listeners' = listeners
              /\ \A c \in DOMAIN conns :
                    ~Has(eventEmitters', conns[c].channelId) =>
                        StaleIn(eventEmitters', conns'[c])
        /\ \A c \in DOMAIN conns :
              Stale(c) =>
                  /\ StaleIn(eventEmitters', conns'[c])
                  /\ ~DataWritten(c)
                  /\ conns'[c].messageCounter = conns[c].messageCounter
                  /\ conns'[c].interval
                  /\ \/ conns'[c].frames = conns[c].frames
                     \/ conns'[c].frames = Append(conns[c].frames, KeepaliveFrame)
                  /\ (/\ ticks' # ticks
                      /\ conns'[c] # conns[c]
                      /\ conns[c].connected) =>
                          conns'[c].frames = Append(conns[c].frames, KeepaliveFrame)
      ]_vars

\* Connection c, still connected, lost its hub; a later connection d of the
\* same channel received a data frame on the new hub, and c has none.
C17_Witness ==
    \E c, d \in DOMAIN conns :
        /\ c < d
        /\ conns[c].channelId = conns[d].channelId
        /\ Stale(c) /\ ~Stale(d)
        /\ conns[c].connected
        /\ DataFrames(c) = <<>>
        /\ DataFrames(d) # <<>>

\* C18: in every state between handler runs, each listener registered on the
\* emitter of a registry entry belongs to a connection whose closure counter
\* equals the entry's messageCounter.
C18_ClosureCountersEqualRegistry ==
    \A ch \in DOMAIN eventEmitters :
        LET e == eventEmitters[ch].emitter
        IN  /\ e \in DOMAIN listeners
            /\ \A c \in Range(listeners[e]) :
                  conns[c].messageCounter = eventEmitters[ch].messageCounter

\* Two listeners of one current emitter, the second registered after the
\* first broadcast, after a second broadcast that reached both
C18_Witness ==
    \E ch \in DOMAIN eventEmitters :
        \E c, d \in Range(listeners[eventEmitters[ch].emitter]) :
            /\ conns[c].joinedAfter = 0
            /\ conns[d].joinedAfter = 1
            /\ eventEmitters[ch].messageCounter = 3
            /\ Len(DataFrames(c)) = 2
            /\ Len(DataFrames(d)) = 1

\* C19 (as claimed), for the requests that carry every required field: the
\* handler calls a response method at most once, so after the 404 of a POST
\* /message that found no hub there is no attempt at a 201.
C19_Claim == \A q \in Reqs : (Complete(q) /\ q.name # Undefined) => Len(q.sent) <= 1

====
